---- MODULE Spec2Model ----
(***************************************************************************)
(* A model of poker/room/pokerstars.py: the PokerStars hand-history parser *)
(* (class PokerStarsHandHistory) and its street parser (class _Street).    *)
(*                                                                         *)
(* Text is modelled as text: a line is a TLA+ string, and the Python       *)
(* string methods and regular expressions the parser uses are operators    *)
(* over strings that compute what the Python computes.                     *)
(***************************************************************************)
EXTENDS Integers, Sequences, FiniteSets, TLC

(***************************************************************************)
(* Python values.  An optional value is a sequence of length at most one:  *)
(* None is <<>>, a value v is <<v>>.                                       *)
(***************************************************************************)
None == <<>>

Some(v) == <<v>>

IsNone(o) == Len(o) = 0

Val(o) == o[1]

(***************************************************************************)
(* Strings.                                                                *)
(***************************************************************************)
Ch(s, i) == SubSeq(s, i, i)

CharsOf(s) == {Ch(s, i) : i \in 1..Len(s)}

LowerCase == "abcdefghijklmnopqrstuvwxyz"

UpperCase == "ABCDEFGHIJKLMNOPQRSTUVWXYZ"

\* \s, \d and \w of Python's re module, over the characters the lines use
Space == {" ", "\t"}

Digit == CharsOf("0123456789")

Word == CharsOf(LowerCase) \cup CharsOf(UpperCase) \cup Digit \cup {"_"}

\* str.startswith
StartsWith(s, p) == Len(p) <= Len(s) /\ SubSeq(s, 1, Len(p)) = p

\* str.find, 1-based; 0 when p does not occur in s
Find(s, p) ==
  LET hits == {i \in 1..(Len(s) - Len(p) + 1) : SubSeq(s, i, i + Len(p) - 1) = p}
  IN  IF hits = {} THEN 0 ELSE CHOOSE i \in hits : \A j \in hits : i <= j

\* the `in` operator on strings
Contains(s, p) == Find(s, p) # 0

RECURSIVE LStrip(_)
LStrip(s) == IF Len(s) > 0 /\ Ch(s, 1) \in Space THEN LStrip(Tail(s)) ELSE s

RECURSIVE RStrip(_)
RStrip(s) ==
  IF Len(s) > 0 /\ Ch(s, Len(s)) \in Space THEN RStrip(SubSeq(s, 1, Len(s) - 1)) ELSE s

\* str.strip
Strip(s) == LStrip(RStrip(s))

\* str.replace(c, r) for a single character c
RECURSIVE Replace(_, _, _)
Replace(s, c, r) ==
  IF Len(s) = 0 THEN s
  ELSE (IF Ch(s, 1) = c THEN r ELSE Ch(s, 1)) \o Replace(Tail(s), c, r)

\* str.upper
RECURSIVE ToUpper(_)
ToUpper(s) ==
  IF Len(s) = 0 THEN s
  ELSE LET k == Find(LowerCase, Ch(s, 1))
       IN  (IF k = 0 THEN Ch(s, 1) ELSE Ch(UpperCase, k)) \o ToUpper(Tail(s))

\* str.split(): the maximal runs of non-whitespace characters, in order
RECURSIVE SplitWords(_)
SplitWords(s) ==
  LET t == LStrip(s)
      ends == {i \in 1..Len(t) : Ch(t, i) \in Space}
      e == IF ends = {} THEN Len(t) + 1 ELSE CHOOSE i \in ends : \A j \in ends : i <= j
  IN  IF Len(t) = 0 THEN <<>>
      ELSE <<SubSeq(t, 1, e - 1)>> \o SplitWords(SubSeq(t, e, Len(t)))

\* str.partition(sep): <<before, sep, after>>, or <<s, "", "">> without sep
Partition(s, sep) ==
  LET k == Find(s, sep)
  IN  IF k = 0 THEN <<s, "", "">>
      ELSE <<SubSeq(s, 1, k - 1), sep, SubSeq(s, k + Len(sep), Len(s))>>

\* int(): the value of a run of decimal digits
RECURSIVE ParseInt(_)
ParseInt(s) ==
  IF Len(s) = 0 THEN 0
  ELSE 10 * ParseInt(SubSeq(s, 1, Len(s) - 1)) + (Find("0123456789", Ch(s, Len(s))) - 1)

(***************************************************************************)
(* decimal.Decimal.  A Decimal is [n |-> unscaled digits, d |-> number of  *)
(* fraction digits]; Decimal compares by numeric value (DecEq).            *)
(* DecimalOf(s) is Decimal(s): Some(value), or None where the constructor  *)
(* raises InvalidOperation.                                                *)
(***************************************************************************)
DecimalOf(s) ==
  LET signed == Len(s) > 0 /\ Ch(s, 1) \in {"+", "-"}
      u == IF signed THEN Tail(s) ELSE s
      k == Find(u, ".")
      ip == IF k = 0 THEN u ELSE SubSeq(u, 1, k - 1)
      fp == IF k = 0 THEN "" ELSE SubSeq(u, k + 1, Len(u))
      mag == ParseInt(ip \o fp)
  IN  IF (Len(ip) + Len(fp) > 0)
         /\ (\A i \in 1..Len(ip) : Ch(ip, i) \in Digit)
         /\ (\A i \in 1..Len(fp) : Ch(fp, i) \in Digit)
      THEN Some([n |-> IF signed /\ Ch(s, 1) = "-" THEN 0 - mag ELSE mag, d |-> Len(fp)])
      ELSE None

RECURSIVE Pow10(_)
Pow10(k) == IF k = 0 THEN 1 ELSE 10 * Pow10(k - 1)

DecEq(a, b) == a.n * Pow10(b.d) = b.n * Pow10(a.d)

\* Decimal('0.00')
DecZero == [n |-> 0, d |-> 2]

(***************************************************************************)
(* Regular expressions.  A pattern is a tree; RM(p, s, i, g) is the        *)
(* sequence of the matches of p in s from position i, in the order in which*)
(* Python's backtracking matcher tries them, each [e |-> the position      *)
(* after the match, g |-> the named groups it captured].  The first        *)
(* element is the match Python reports.                                    *)
(***************************************************************************)
Lit(s) == [t |-> "lit", s |-> s]

Cls(cs) == [t |-> "cls", cs |-> cs, neg |-> FALSE]

NotCls(cs) == [t |-> "cls", cs |-> cs, neg |-> TRUE]

\* .
AnyChar == NotCls({"\n"})

\* p{lo,}: greedy, or lazy (p{lo,}?), over a one-character pattern p
Many(p, lo) == [t |-> "rep", p |-> p, lo |-> lo, hi |-> -1, greedy |-> TRUE]

ManyLazy(p, lo) == [t |-> "rep", p |-> p, lo |-> lo, hi |-> -1, greedy |-> FALSE]

\* p{k}
Times(p, k) == [t |-> "rep", p |-> p, lo |-> k, hi |-> k, greedy |-> TRUE]

Cat(ps) == [t |-> "cat", ps |-> ps]

Alt(ps) == [t |-> "alt", ps |-> ps]

\* (?:p)?
Opt(p) == [t |-> "opt", p |-> p]

\* (?P<n>p)
Grp(n, p) == [t |-> "grp", n |-> n, p |-> p]

\* $
Eol == [t |-> "eol"]

NoGroups == [x \in {} |-> ""]

ClsHas(p, c) == (c \in p.cs) # p.neg

\* the length of the longest run of characters of class p from position i
Run(p, s, i, hi) ==
  LET stops == {j \in i..Len(s) : ~ClsHas(p, Ch(s, j))}
      stop == IF stops = {} THEN Len(s) + 1 ELSE CHOOSE j \in stops : \A k \in stops : j <= k
      m == IF stop > i THEN stop - i ELSE 0
  IN  IF hi >= 0 /\ hi < m THEN hi ELSE m

RECURSIVE RM(_, _, _, _)
RECURSIVE RMCat(_, _, _, _, _)
RECURSIVE RMEach(_, _, _, _, _)
RECURSIVE RMAlt(_, _, _, _, _)
\* the matches of p in s from position i, g the groups captured before it
RM(p, s, i, g) ==
  CASE p.t = "lit" ->
         IF i + Len(p.s) - 1 <= Len(s) /\ SubSeq(s, i, i + Len(p.s) - 1) = p.s
         THEN <<[e |-> i + Len(p.s), g |-> g]>> ELSE <<>>
    [] p.t = "cls" ->
         IF i <= Len(s) /\ ClsHas(p, Ch(s, i)) THEN <<[e |-> i + 1, g |-> g]>> ELSE <<>>
    [] p.t = "rep" ->
         LET m == Run(p.p, s, i, p.hi)
         IN  IF m < p.lo THEN <<>>
             ELSE [k \in 1..(m - p.lo + 1) |->
                     [e |-> i + (IF p.greedy THEN m - k + 1 ELSE p.lo + k - 1),
                      g |-> g]] \o <<>>
    [] p.t = "cat" -> RMCat(p.ps, 1, Len(p.ps), s, <<[e |-> i, g |-> g]>>)
    [] p.t = "alt" -> RMAlt(p.ps, 1, s, i, g)
    [] p.t = "opt" -> RM(p.p, s, i, g) \o <<[e |-> i, g |-> g]>>
    [] p.t = "grp" ->
         LET R == RM(p.p, s, i, g)
         IN  [k \in DOMAIN R |->
                [e |-> R[k].e, g |-> (p.n :> SubSeq(s, i, R[k].e - 1)) @@ R[k].g]] \o <<>>
    [] p.t = "eol" -> IF i = Len(s) + 1 THEN <<[e |-> i, g |-> g]>> ELSE <<>>
\* the partial matches rs extended by ps[lo], ..., ps[hi] in turn
RMCat(ps, lo, hi, s, rs) ==
  CASE lo > hi -> rs
    [] lo = hi -> RMEach(ps[lo], s, rs, 1, Len(rs))
    [] lo + 1 = hi ->
         CHOOSE r \in {RMEach(ps[hi], s, x, 1, Len(x)) :
                         x \in {RMEach(ps[lo], s, rs, 1, Len(rs))}} : TRUE
    [] OTHER ->
         CHOOSE r \in {RMCat(ps, (lo + hi) \div 2 + 1, hi, s, x) :
                         x \in {RMCat(ps, lo, (lo + hi) \div 2, s, rs)}} : TRUE
\* the matches of p after each of the partial matches rs[lo..hi], in order
RMEach(p, s, rs, lo, hi) ==
  CASE lo > hi -> <<>>
    [] lo = hi -> RM(p, s, rs[lo].e, rs[lo].g)
    [] OTHER -> RMEach(p, s, rs, lo, (lo + hi) \div 2)
                  \o RMEach(p, s, rs, (lo + hi) \div 2 + 1, hi)
RMAlt(ps, k, s, i, g) ==
  IF k > Len(ps) THEN <<>> ELSE RM(ps[k], s, i, g) \o RMAlt(ps, k + 1, s, i, g)

\* re.match(p, s): Some(groups) of the first match at the start of s, or None
ReMatch(p, s) ==
  LET R == RM(p, s, 1, NoGroups) IN IF Len(R) = 0 THEN None ELSE Some(R[1].g)

\* re.search(p, s): the first match at the leftmost position that has one
ReSearch(p, s) ==
  LET starts == {i \in 1..(Len(s) + 1) : Len(RM(p, s, i, NoGroups)) > 0}
      i0 == CHOOSE i \in starts : \A j \in starts : i <= j
  IN  IF starts = {} THEN None ELSE Some(RM(p, s, i0, NoGroups)[1].g)

\* match.group(name): Some(text), or None for a group that did not take part
Group(m, n) == IF n \in DOMAIN m THEN Some(m[n]) ELSE None

(***************************************************************************)
(* The patterns of the two classes.                                        *)
(***************************************************************************)
\* \d+(?:\.\d+)?
Amount == Cat(<<Many(Cls(Digit), 1), Opt(Cat(<<Lit("."), Many(Cls(Digit), 1)>>))>>)

Spaces == Many(Cls(Space), 1)

\* _header_re is compiled with re.VERBOSE: white space in the pattern text is
\* dropped, the blanks written inside the date group included, and the
\* pattern has no $.
_header_re ==
  Cat(<<Lit("PokerStars"), Spaces, Lit("Hand"), Spaces, Lit("#"),
        Grp("ident", Many(Cls(Digit), 1)), Lit(":"), Spaces,
        Opt(Cat(<<Lit("Tournament"), Spaces, Lit("#"),
                  Grp("tournament_ident", Many(Cls(Digit), 1)), Lit(","), Spaces,
                  Alt(<<Grp("freeroll", Lit("Freeroll")),
                        Cat(<<Lit("$"), Grp("buyin", Amount),
                              Lit("+$"), Opt(Grp("rake", Amount)),
                              Opt(Cat(<<Spaces,
                                        Grp("currency", Many(Cls(CharsOf(UpperCase)), 1))>>))>>)>>),
                  Spaces>>)),
        Grp("game", ManyLazy(AnyChar, 1)), Spaces,
        Grp("limit", Cat(<<Alt(<<Cat(<<Lit("Pot"), Spaces>>),
                                 Cat(<<Lit("No"), Spaces>>),
                                 Lit("")>>),
                           Lit("Limit")>>)), Spaces,
        Opt(Cat(<<Lit("-"), Spaces, Lit("Level"), Spaces,
                  Grp("tournament_level", Many(NotCls(Space), 1)), Spaces>>)),
        Lit("("),
        Alt(<<Cat(<<Grp("sb", Many(Cls(Digit), 1)), Lit("/"),
                    Grp("bb", Many(Cls(Digit), 1))>>),
              Cat(<<Lit("$"), Grp("cash_sb", Amount), Lit("/"), Opt(Lit("$")),
                    Grp("cash_bb", Amount),
                    Opt(Cat(<<Spaces, Grp("cash_currency", Many(NotCls(Space), 1))>>))>>)>>),
        Lit(")"), Spaces, Lit("-"), Spaces,
        Grp("date", Cat(<<Times(Cls(Digit), 4), Lit("/"), Times(Cls(Digit), 2), Lit("/"),
                          Times(Cls(Digit), 2), Times(Cls(Digit), 2), Lit(":"),
                          Times(Cls(Digit), 2), Lit(":"), Times(Cls(Digit), 2),
                          Times(Cls(Word), 2)>>))>>)

_table_re ==
  Cat(<<Lit("Table '"), Grp("table_name", Many(AnyChar, 1)), Lit("' "),
        Grp("max_players", Many(Cls(Digit), 1)), Lit("-max Seat #"),
        Grp("button", Many(Cls(Digit), 1)), Lit(" is the button"), Eol>>)

_seat_re ==
  Cat(<<Lit("Seat "), Grp("seat", Many(Cls(Digit), 1)), Lit(": "),
        Grp("name", ManyLazy(AnyChar, 1)), Lit(" ("), Opt(Lit("$")),
        Grp("stack", Amount), Lit(" in chips)"), Eol>>)

_hero_re ==
  Cat(<<Lit("Dealt to "), Grp("hero_name", ManyLazy(AnyChar, 1)), Lit(" ["),
        Grp("card1", Times(AnyChar, 2)), Lit(" "), Grp("card2", Times(AnyChar, 2)),
        Lit("]"), Eol>>)

_pot_re ==
  Cat(<<Lit("Total pot "), Opt(Lit("$")), Grp("pot", Amount), Lit(" | Rake "),
        Opt(Lit("$")), Grp("rake", Amount), Eol>>)

_winner_re ==
  Cat(<<Lit("Seat "), Many(Cls(Digit), 1), Lit(": "), Grp("name", ManyLazy(AnyChar, 1)),
        Lit(" collected ("), Opt(Lit("$")), Grp("amount", Amount), Lit(")"), Eol>>)

_showdown_re ==
  Cat(<<Lit("Seat "), Many(Cls(Digit), 1), Lit(": "), Grp("name", ManyLazy(AnyChar, 1)),
        Lit(" showed ["), ManyLazy(AnyChar, 1), Lit("] and won"), Eol>>)

\* \[([^\]]+)\], whose group 1 is named "cards" here
_board_re == Cat(<<Lit("["), Grp("cards", Many(NotCls({"]"}), 1)), Lit("]")>>)

\* _Street._parse_uncalled: \((\$?\d+(?:\.\d+)?)\) and to (\w+)
UncalledAmountRe == Cat(<<Lit("("), Grp("amount", Cat(<<Opt(Lit("$")), Amount>>)), Lit(")")>>)

UncalledNameRe == Cat(<<Lit("to "), Grp("name", Many(Cls(Word), 1))>>)

\* _Street._parse_collected
CollectedRe ==
  Cat(<<Grp("name", Many(Cls(Word), 1)), Lit(" collected $"), Grp("amount", Amount),
        Lit(" from pot")>>)

\* _Street._parse_muck
MuckRe ==
  Cat(<<Grp("name", Many(Cls(Word), 1)), Lit(": "),
        Alt(<<Lit("doesn't show hand"), Lit("mucks")>>)>>)

\* _Street._handle_player_join
JoinRe ==
  Cat(<<Grp("name", ManyLazy(AnyChar, 1)), Lit(" joins the table at seat #"),
        Grp("seat", Many(Cls(Digit), 1)), Eol>>)

(***************************************************************************)
(* Python objects.  An instance is its attribute dictionary: a function    *)
(* from the names of the attributes assigned so far to their values;       *)
(* reading a name outside its domain is Python's AttributeError.  _Player  *)
(* objects live in a heap (a sequence; an object's identity is its index)  *)
(* so that the roster, button and hero can refer to one object.            *)
(***************************************************************************)
Set(obj, k, v) == (k :> v) @@ obj

Has(obj, k) == k \in DOMAIN obj

\* list[i] for a Python index i (negative counts from the end): the 1-based
\* position, or 0 for IndexError
PyIndex(n, i) ==
  IF 0 <= i /\ i < n THEN i + 1
  ELSE IF i < 0 /\ 0 - n <= i THEN n + i + 1 ELSE 0

\* str(n) for n >= 0
RECURSIVE IntToStr(_)
IntToStr(n) ==
  IF n < 10 THEN Ch("0123456789", n + 1)
  ELSE IntToStr(n \div 10) \o Ch("0123456789", (n % 10) + 1)

\* the elements of a sequence
Range(q) == {q[i] : i \in DOMAIN q}

(***************************************************************************)
(* A block of text is the sequence of its lines.  StripSplit(b) is         *)
(* text.strip().split('\n'): blank lines at both ends go, the first line   *)
(* loses its leading and the last its trailing white space, and the empty  *)
(* text gives the one line "".                                             *)
(***************************************************************************)
IsBlank(s) == Len(Strip(s)) = 0

RECURSIVE DropBlankHead(_)
DropBlankHead(b) == IF Len(b) > 0 /\ IsBlank(b[1]) THEN DropBlankHead(Tail(b)) ELSE b

RECURSIVE DropBlankTail(_)
DropBlankTail(b) ==
  IF Len(b) > 0 /\ IsBlank(b[Len(b)]) THEN DropBlankTail(SubSeq(b, 1, Len(b) - 1)) ELSE b

StripSplit(b) ==
  LET c == DropBlankTail(DropBlankHead(b))
  IN  IF Len(c) = 0 THEN <<"">>
      ELSE [i \in 1..Len(c) |->
              IF i = 1 /\ i = Len(c) THEN Strip(c[i])
              ELSE IF i = 1 THEN LStrip(c[i])
              ELSE IF i = Len(c) THEN RStrip(c[i]) ELSE c[i]]

\* self.sections.get(key, "").strip().split('\n')
SectionLines(h, key) ==
  StripSplit(IF key \in DOMAIN h.sections THEN h.sections[key] ELSE <<>>)

(***************************************************************************)
(* The collaborators pokerstars.py imports: the base classes of            *)
(* poker.handhistory and the value types and enumerations.                 *)
(***************************************************************************)
\* _BaseHandHistory.__init__(hand_text)
NewHand(text) == [raw |-> text, header_parsed |-> FALSE, parsed |-> FALSE]

\* _SplittableHandHistoryMixin._split_raw: the text before the first marker
\* (self._splitted[0]) and the section map (self.sections)
SplitRaw(h) == Set(Set(h, "_splitted", <<h.raw.head>>), "sections", h.raw.sections)

\* _SplittableHandHistoryMixin._del_split_vars
DelSplitVars(h) == [x \in DOMAIN h \ {"_splitted", "sections"} |-> h[x]]

\* hh._Player(name, stack, seat, combo)
Player(name, stack, seat, combo) ==
  [name |-> name, stack |-> stack, seat |-> seat, combo |-> combo]

EmptySeatName(seat) == "Empty Seat " \o IntToStr(seat)

\* _BaseHandHistory._init_seats(n): n new placeholder players, seats 1..n;
\* the result is [players |-> the list, heap |-> the heap with them]
InitSeats(heap, n) ==
  [players |-> [k \in 1..n |-> Len(heap) + k],
   heap |-> heap \o [k \in 1..n |-> Player(EmptySeatName(k), [n |-> 0, d |-> 0], k, None)]]

\* _BaseHandHistory._get_hero_from_players(name): the 1-based position of the
\* first player of that name, 0 where list.index raises ValueError
HeroIndex(heap, players, name) ==
  LET hits == {k \in 1..Len(players) : heap[players[k]].name = name}
  IN  IF hits = {} THEN 0 ELSE CHOOSE k \in hits : \A j \in hits : k <= j

\* Card(text) raises unless text is a rank and a suit
IsCard(c) ==
  Len(c) = 2 /\ Ch(c, 1) \in CharsOf("23456789TJQKA") /\ Ch(c, 2) \in CharsOf("cdhs")

\* the member names of the Action enumeration
ActionNames ==
  {"BET", "CALL", "CHECK", "FOLD", "RAISE", "POST", "ALL_IN", "RETURN", "WIN", "MUCK"}

\* Currency(text), Game(text), Limit(text) look a value up and raise ValueError
\* for a text that is none
CurrencyValues == {"USD", "EUR", "GBP"}

GameValues == {"HOLD'EM", "OMAHA"}

LimitValues == {"NO_LIMIT", "POT_LIMIT", "LIMIT"}

(***************************************************************************)
(* PokerStarsHandHistory.  Each method is an operator from the world       *)
(* [hand, heap] before the call to the world after it, with raised = TRUE  *)
(* when the method leaves by an exception.                                 *)
(***************************************************************************)
Return(hand, heap) == [hand |-> hand, heap |-> heap, raised |-> FALSE]

Raise(hand, heap) == [hand |-> hand, heap |-> heap, raised |-> TRUE]

\* a or b or default, for optional strings
Either(a, b, default) ==
  IF ~IsNone(a) /\ Len(Val(a)) > 0 THEN Val(a)
  ELSE IF ~IsNone(b) /\ Len(Val(b)) > 0 THEN Val(b) ELSE default

\* the fields parse_header assigns from the match m
HeaderFields(h, m) ==
  LET tour == ~IsNone(Group(m, "tournament_ident"))
      cur0 == IF tour THEN Group(m, "currency") ELSE Group(m, "cash_currency")
      currency == IF ~IsNone(Group(m, "freeroll")) /\ IsNone(cur0) THEN Some("USD") ELSE cur0
      game_str == ToUpper(m.game)
      limit_str == ToUpper(m.limit)
  IN  [x \in DOMAIN h \cup {"extra", "ident", "sb", "bb", "game_type", "tournament_ident",
                            "tournament_level", "buyin", "rake", "currency", "game",
                            "limit", "date", "header_parsed"} |->
        CASE x = "ident" -> m.ident
          [] x = "sb" -> Val(DecimalOf(Either(Group(m, "sb"), Group(m, "cash_sb"), "0.00")))
          [] x = "bb" -> Val(DecimalOf(Either(Group(m, "bb"), Group(m, "cash_bb"), "0.00")))
          [] x = "game_type" -> IF tour THEN "TOUR" ELSE "CASH"
          [] x = "tournament_ident" -> IF tour THEN Group(m, "tournament_ident") ELSE None
          [] x = "tournament_level" -> IF tour THEN Group(m, "tournament_level") ELSE None
          [] x = "buyin" ->
               IF tour THEN Some(Val(DecimalOf(Either(Group(m, "buyin"), None, "0.00"))))
               ELSE None
          [] x = "rake" ->
               IF tour THEN Some(Val(DecimalOf(Either(Group(m, "rake"), None, "0.00"))))
               ELSE None
          [] x = "extra" -> [money_type |-> IF IsNone(currency) THEN "PLAY" ELSE "REAL"]
          [] x = "currency" ->
               IF ~IsNone(currency) /\ Val(currency) \in CurrencyValues THEN currency ELSE None
          [] x = "game" -> IF game_str \in GameValues THEN game_str ELSE "UNKNOWN"
          [] x = "limit" ->
               LET key == Replace(limit_str, " ", "_")
               IN  IF key \in LimitValues THEN key ELSE "UNKNOWN"
          \* strptime wants white space where _header_re admits none
          [] x = "date" -> None
          [] x = "header_parsed" -> TRUE
          [] OTHER -> h[x]]

\* parse_header without its raise: the header is taken as read
ParseHeaderLenient(w) == Return(Set(SplitRaw(w.hand), "header_parsed", TRUE), w.heap)

\* parse_header
ParseHeader(w) ==
  LET h == SplitRaw(w.hand)
      header_section == StripSplit(h["_splitted"][1])[1]
      match == ReMatch(_header_re, header_section)
  IN  IF IsNone(match) THEN Raise(h, w.heap)
      ELSE Return(HeaderFields(h, Val(match)), w.heap)

\* _parse_table: the except clause logs and raises again
ParseTable(w) ==
  LET table_section == SectionLines(w.hand, "HEADER")[1]
      match == ReMatch(_table_re, table_section)
  IN  IF ~Has(w.hand, "sections") \/ IsNone(match) THEN Raise(w.hand, w.heap)
      ELSE Return(Set(Set(w.hand, "table_name", Val(match).table_name),
                      "max_players", ParseInt(Val(match).max_players)),
                  w.heap)

\* self.players.append(hh._Player(...)) in the place of the assignment
PlaceAtEnd(players, k, oid) == Append(players, oid)

\* self.players[seat - 1] = hh._Player(...): the roster with the new object
\* at that index; the caller has checked the index
PlaceAt(players, k, oid) == [players EXCEPT ![k] = oid]

\* the loop of _parse_players over lines[i..]: a line that is no seat line
\* ends it, an index outside the roster raises IndexError
RECURSIVE SeatLoop(_, _, _, _)
RECURSIVE SeatLine(_, _, _, _, _)
SeatLoop(lines, i, players, heap) ==
  IF i > Len(lines) THEN [players |-> players, heap |-> heap, raised |-> FALSE]
  ELSE SeatLine(lines, i, players, heap, ReMatch(_seat_re, Strip(lines[i])))

\* the body of that loop for lines[i], match its match with _seat_re
SeatLine(lines, i, players, heap, match) ==
  IF IsNone(match) THEN [players |-> players, heap |-> heap, raised |-> FALSE]
  ELSE LET seat == ParseInt(Val(match).seat)
           k == PyIndex(Len(players), seat - 1)
       IN  IF k = 0 THEN [players |-> players, heap |-> heap, raised |-> TRUE]
           ELSE CHOOSE r \in {SeatLoop(lines, i + 1, ps, hp) :
                                ps \in {PlaceAt(players, k, Len(heap) + 1)},
                                hp \in {Append(heap, Player(Val(match).name,
                                                            Val(DecimalOf(Val(match).stack)),
                                                            seat, None))}} : TRUE

\* the end of _parse_players, r the outcome of its loop
PlayersOf(w, r) ==
  IF r.raised THEN Raise(Set(w.hand, "players", r.players), r.heap)
  ELSE Return(Set(w.hand, "players", r.players), r.heap)

\* the loop of _parse_players on the roster _init_seats gave
SeatsOf(w, seats) ==
  PlayersOf(w, SeatLoop(SectionLines(w.hand, "HEADER"), 2, seats.players, seats.heap))

\* _parse_players: the except clause logs and raises again
ParsePlayers(w) ==
  IF ~Has(w.hand, "sections") \/ ~Has(w.hand, "max_players") THEN Raise(w.hand, w.heap)
  ELSE SeatsOf(w, InitSeats(w.heap, w.hand.max_players))

\* _parse_button: any exception leaves the button None
ParseButton(w) ==
  LET h == w.hand
      ok == Has(h, "_table_match") /\ ~IsNone(h["_table_match"]) /\ Has(h, "players")
      button_seat == ParseInt(Val(h["_table_match"]).button)
      k == PyIndex(Len(h.players), button_seat - 1)
  IN  IF ok /\ k # 0 THEN Return(Set(h, "button", Some(h.players[k])), w.heap)
      ELSE Return(Set(h, "button", None), w.heap)

\* the first line of lines[i..] that matches _hero_re: Some(match) or None
RECURSIVE FirstHeroLine(_, _)
FirstHeroLine(lines, i) ==
  IF i > Len(lines) THEN None
  ELSE LET match == ReMatch(_hero_re, Strip(lines[i]))
       IN  IF IsNone(match) THEN FirstHeroLine(lines, i + 1) ELSE match

\* _parse_hero from the lookup by name on.  The statements run in order until
\* one raises: Combo(...), hero.combo = ..., self.hero = self.players[i] =
\* hero, and the read of self.button.name, which raises when the button is
\* None; the except clause then sets self.hero = None and keeps what was done
\* before.  m is the match, k the place of the hero in the roster.
HeroAt(w, m, k) ==
  LET h == w.hand
      oid == h.players[k]
      heap1 == [w.heap EXCEPT ![oid].combo = Some(m.card1 \o m.card2)]
  IN  IF k = 0 \/ ~IsCard(m.card1) \/ ~IsCard(m.card2)
      THEN Return(Set(h, "hero", None), w.heap)
      ELSE IF ~Has(h, "button") \/ IsNone(h.button)
           THEN Return(Set(h, "hero", None), heap1)
      ELSE IF heap1[Val(h.button)].name = heap1[oid].name
           THEN Return(Set(Set(h, "hero", Some(oid)), "button", Some(oid)), heap1)
           ELSE Return(Set(h, "hero", Some(oid)), heap1)

\* _parse_hero once the Dealt to line was looked for
HeroOf(w, match) ==
  IF IsNone(match) THEN Return(Set(w.hand, "hero", None), w.heap)
  ELSE HeroAt(w, Val(match), HeroIndex(w.heap, w.hand.players, Val(match).hero_name))

\* _parse_hero
ParseHero(w) ==
  IF ~Has(w.hand, "sections") \/ ~Has(w.hand, "players")
  THEN Return(Set(w.hand, "hero", None), w.heap)
  ELSE HeroOf(w, FirstHeroLine(SectionLines(w.hand, "HEADER"), 1))

(***************************************************************************)
(* _Street.  A street walk st is [actions |-> the local list of actions,   *)
(* pot |-> self.pot, players |-> self.players, heap |-> the player         *)
(* objects].  An action is [name, kind, amount], the amount optional.      *)
(***************************************************************************)
PlayerAction(name, kind, amount) == [name |-> name, kind |-> kind, amount |-> amount]

\* _parse_uncalled: Some(action) or None
ParseUncalled(line) ==
  LET amount_match == ReSearch(UncalledAmountRe, line)
      name_match == ReSearch(UncalledNameRe, line)
  IN  IF ~IsNone(amount_match) /\ ~IsNone(name_match)
      THEN Some(PlayerAction(Val(name_match).name, "RETURN",
                             DecimalOf(Replace(Val(amount_match).amount, "$", ""))))
      ELSE None

\* _parse_collected: Some(action) or None; a match also sets self.pot
ParseCollected(line) ==
  LET match == ReMatch(CollectedRe, line)
  IN  IF ~IsNone(match)
      THEN Some(PlayerAction(Val(match).name, "WIN", DecimalOf(Val(match).amount)))
      ELSE None

\* _parse_muck
ParseMuck(line) ==
  LET match == ReMatch(MuckRe, line)
  IN  IF ~IsNone(match) THEN Some(PlayerAction(Val(match).name, "MUCK", None)) ELSE None

\* the action tokens _parse_player_action accepts besides ALL-IN
PlayerActionTokens == {"BET", "CALL", "CHECK", "FOLD", "RAISE", "POSTS"}

\* _parse_player_action: an empty action part raises IndexError and a token
\* that names no member of Action raises KeyError; both are caught
ParsePlayerAction(line) ==
  LET parts == Partition(line, ": ")
      name == parts[1]
      action_parts == SplitWords(parts[3])
      action == ToUpper(action_parts[1])
      amount == IF Len(action_parts) > 1
                THEN DecimalOf(Replace(Replace(action_parts[2], "$", ""), ",", ""))
                ELSE None
  IN  IF Len(action_parts) = 0 THEN None
      ELSE IF action = "ALL-IN" THEN Some(PlayerAction(name, "ALL_IN", None))
      ELSE IF action \in PlayerActionTokens
           THEN IF action \in ActionNames THEN Some(PlayerAction(name, action, amount))
                ELSE None
      ELSE None

\* _handle_player_join without its test: no seat counts as occupied
SeatNeverTaken(player, seat) == FALSE

\* the test of _handle_player_join for an occupied seat
SeatTaken(player, seat) == Len(player.name) > 0 /\ player.name # EmptySeatName(seat)

\* _handle_player_join: a line that does not match, or a seat outside the
\* roster (IndexError, caught), changes nothing
HandlePlayerJoin(st, line) ==
  LET match == ReMatch(JoinRe, line)
      seat == ParseInt(Val(match).seat)
      k == PyIndex(Len(st.players), seat - 1)
  IN  IF IsNone(match) THEN st
      ELSE IF k = 0 THEN st
      ELSE IF SeatTaken(st.heap[st.players[k]], seat) THEN st
      ELSE [st EXCEPT !.players = PlaceAt(st.players, k, Len(st.heap) + 1),
                      !.heap = Append(st.heap, Player(Val(match).name, DecZero, seat, None))]

\* if action: actions.append(hh._PlayerAction(*action))
AddAction(st, action) ==
  IF IsNone(action) THEN st ELSE [st EXCEPT !.actions = Append(st.actions, Val(action))]

\* one turn of the loop of _parse_actions
StreetLine(st, line) ==
  IF StartsWith(line, "Uncalled bet") THEN AddAction(st, ParseUncalled(line))
  ELSE IF Contains(line, "collected")
       THEN LET a == ParseCollected(line)
            IN  AddAction(IF IsNone(a) THEN st ELSE [st EXCEPT !.pot = Val(a).amount], a)
  ELSE IF Contains(line, "doesn't show hand") \/ Contains(line, "mucks")
       THEN AddAction(st, ParseMuck(line))
  ELSE IF Contains(line, "joins the table") THEN HandlePlayerJoin(st, line)
  ELSE IF Contains(line, " said, \"") THEN st
  ELSE IF Contains(line, ":") THEN AddAction(st, ParsePlayerAction(line))
  ELSE st

RECURSIVE StreetLoop(_, _, _)
StreetLoop(st, lines, i) ==
  IF i > Len(lines) THEN st
  ELSE CHOOSE r \in {StreetLoop(next, lines, i + 1) : next \in {StreetLine(st, lines[i])}} : TRUE

\* self.actions = tuple(actions) if actions else None
FinalActions(actions) == IF Len(actions) = 0 THEN None ELSE Some(actions)

\* the fields _parse_cards sets from the texts between the brackets; Card(...)
\* raises for a text that is no card
CardFields(card_str, n) ==
  IF \E i \in 1..(IF n < 5 THEN n ELSE 5) : ~IsCard(card_str[i])
  THEN [raised |-> TRUE, cards |-> <<>>, turn |-> None, river |-> None]
  ELSE [raised |-> FALSE,
        cards |-> SubSeq(card_str, 1, IF n < 3 THEN n ELSE 3),
        turn |-> IF n > 3 THEN Some(card_str[4]) ELSE None,
        river |-> IF n > 4 THEN Some(card_str[5]) ELSE None]

\* _parse_cards once _board_re was looked for
CardsOf(match) ==
  IF IsNone(match) THEN [raised |-> FALSE, cards |-> <<>>, turn |-> None, river |-> None]
  ELSE CardFields(SplitWords(Val(match).cards), Len(SplitWords(Val(match).cards)))

\* _parse_cards: [raised, cards, turn, river]
ParseCards(boardline) == CardsOf(ReSearch(_board_re, boardline))

\* the walk a new _Street starts with
NewWalk(players, heap) == [actions |-> <<>>, pot |-> None, players |-> players, heap |-> heap]

\* the street object once the cards c and the walk st are there
StreetOf(c, st, players, heap) ==
  IF c.raised THEN [raised |-> TRUE, obj |-> <<>>, players |-> players, heap |-> heap]
  ELSE [raised |-> FALSE,
        obj |-> [cards |-> c.cards, turn |-> c.turn, river |-> c.river,
                 pot |-> st.pot, actions |-> FinalActions(st.actions)],
        players |-> st.players, heap |-> st.heap]

\* _Street(lines), the constructor of _BaseStreet: _parse_cards(lines[0]) and
\* _parse_actions(lines[1:]) on the roster of the hand; [raised, obj, players,
\* heap], obj the new street's attributes
NewStreet(lines, players, heap) ==
  StreetOf(ParseCards(lines[1]), StreetLoop(NewWalk(players, heap), lines, 2), players, heap)

(***************************************************************************)
(* The later steps of parse().                                             *)
(***************************************************************************)
\* the loop of _parse_preflop: the stripped lines up to a marker line
RECURSIVE PreflopLoop(_, _)
PreflopLoop(lines, i) ==
  IF i > Len(lines) \/ StartsWith(ToUpper(lines[i]), "***") THEN <<>>
  ELSE <<Strip(lines[i])>> \o PreflopLoop(lines, i + 1)

\* _parse_preflop
ParsePreflop(w) ==
  LET acts == PreflopLoop(SectionLines(w.hand, "HOLE_CARDS"), 2)
  IN  IF ~Has(w.hand, "sections") THEN Return(Set(w.hand, "preflop_actions", None), w.heap)
      ELSE Return(Set(w.hand, "preflop_actions", FinalActions(acts)), w.heap)

\* self.flop = _Street(...), r the outcome of the constructor
FlopOf(w, r) ==
  IF r.raised THEN Return(Set(w.hand, "flop", None), w.heap)
  ELSE Return(Set(Set(w.hand, "flop", Some(r.obj)), "players", r.players), r.heap)

\* _parse_flop
ParseFlop(w) ==
  IF ~Has(w.hand, "sections") THEN Return(Set(w.hand, "flop", None), w.heap)
  ELSE IF "FLOP" \notin DOMAIN w.hand.sections THEN Return(Set(w.hand, "flop", None), w.heap)
  ELSE FlopOf(w, NewStreet(StripSplit(w.hand.sections["FLOP"]), w.hand.players, w.heap))

\* setattr(self, f"{street}_actions", street_obj.actions), r the outcome of
\* the constructor
ActionsOf(w, attr, r) ==
  IF r.raised THEN Return(Set(w.hand, attr, None), w.heap)
  ELSE Return(Set(Set(w.hand, attr, r.obj.actions), "players", r.players), r.heap)

\* _parse_street(street) for "turn" and "river"; attr is the attribute it
\* sets, turn_actions or river_actions
ParseStreet(w, street_key, attr) ==
  IF ~Has(w.hand, "sections") THEN Return(Set(w.hand, attr, None), w.heap)
  ELSE IF street_key \notin DOMAIN w.hand.sections THEN Return(Set(w.hand, attr, None), w.heap)
  ELSE ActionsOf(w, attr,
                 NewStreet(StripSplit(w.hand.sections[street_key]), w.hand.players, w.heap))

\* _parse_showdown
ParseShowdown(w) ==
  Return(Set(w.hand, "show_down", Has(w.hand, "sections") /\ "SHOW_DOWN" \in DOMAIN w.hand.sections),
         w.heap)

\* the first line of lines[i..] whose stripped text matches _pot_re
RECURSIVE FirstPotLine(_, _)
FirstPotLine(lines, i) ==
  IF i > Len(lines) THEN None
  ELSE LET match == ReMatch(_pot_re, Strip(lines[i]))
       IN  IF IsNone(match) THEN FirstPotLine(lines, i + 1) ELSE match

\* self.total_pot = pot; self.rake = rake: the attribute parse_header set to
\* the buy-in rake, or to None for a cash hand
SetPot(h, pot, rake) == Set(Set(h, "total_pot", pot), "rake", Some(rake))

\* _parse_pot
ParsePot(w) ==
  LET h == w.hand
      match == FirstPotLine(StripSplit(h.sections["SUMMARY"]), 1)
  IN  IF ~Has(h, "sections") THEN Return(SetPot(h, DecZero, DecZero), w.heap)
      ELSE IF "SUMMARY" \notin DOMAIN h.sections THEN Return(SetPot(h, DecZero, DecZero), w.heap)
      ELSE IF IsNone(match) THEN Return(SetPot(h, DecZero, DecZero), w.heap)
      ELSE Return(SetPot(h, Val(DecimalOf(Val(match).pot)), Val(DecimalOf(Val(match).rake))),
                  w.heap)

\* the first line of lines[i..] in which _board_re is found
RECURSIVE FirstBoardLine(_, _)
FirstBoardLine(lines, i) ==
  IF i > Len(lines) THEN None
  ELSE LET match == ReSearch(_board_re, lines[i])
       IN  IF IsNone(match) THEN FirstBoardLine(lines, i + 1) ELSE match

\* _parse_board once the board line was looked for
BoardOf(w, match) ==
  IF IsNone(match) THEN Return(Set(w.hand, "board", None), w.heap)
  ELSE IF \E c \in Range(SplitWords(Val(match).cards)) : ~IsCard(c)
       THEN Return(Set(w.hand, "board", None), w.heap)
  ELSE Return(Set(w.hand, "board", Some(SplitWords(Val(match).cards))), w.heap)

\* _parse_board
ParseBoard(w) ==
  IF ~Has(w.hand, "sections") THEN Return(Set(w.hand, "board", None), w.heap)
  ELSE IF "SUMMARY" \notin DOMAIN w.hand.sections THEN Return(Set(w.hand, "board", None), w.heap)
  ELSE BoardOf(w, FirstBoardLine(StripSplit(w.hand.sections["SUMMARY"]), 1))

\* winners = {name} in the place of winners.add(name)
AddWinnerOnly(winners, name) == {name}

\* winners.add(name)
AddWinner(winners, name) == winners \cup {name}

\* the loop of _parse_winners: the set of the names the lines give
RECURSIVE WinnerLoop(_, _, _)
WinnerLoop(lines, i, winners) ==
  IF i > Len(lines) THEN winners
  ELSE LET match == ReMatch(_winner_re, Strip(lines[i]))
           match_showdown == ReMatch(_showdown_re, Strip(lines[i]))
           next == IF ~IsNone(match) THEN AddWinner(winners, Val(match).name)
                   ELSE IF ~IsNone(match_showdown)
                        THEN AddWinner(winners, Val(match_showdown).name)
                   ELSE winners
       IN  CHOOSE r \in {WinnerLoop(lines, i + 1, ws) : ws \in {next}} : TRUE

\* the set of names _parse_winners ends with
WinnerSet(h) ==
  IF ~Has(h, "sections") THEN {}
  ELSE IF "SUMMARY" \notin DOMAIN h.sections THEN {}
  ELSE WinnerLoop(StripSplit(h.sections["SUMMARY"]), 1, {})

\* tuple(winners): the elements of the set once each, in an order the set
\* decides
TuplesOf(S) ==
  {t \in [1..Cardinality(S) -> S] : \A i, j \in 1..Cardinality(S) : t[i] = t[j] => i = j}

\* the end of parse(): self._del_split_vars(); self.parsed = True
Finalize(w) == Return(Set(DelSplitVars(w.hand), "parsed", TRUE), w.heap)

(***************************************************************************)
(* The transcripts the model is run on.  A transcript is [head |-> the     *)
(* text before the first *** marker, sections |-> the section map the      *)
(* splitter gives].  parse_header reads line 0 of the head; _parse_table   *)
(* reads line 0 of sections["HEADER"] and _parse_players its lines 1..,    *)
(* so both layouts of that block are run: the table line first, and the    *)
(* whole head (the header line first).                                     *)
(***************************************************************************)
MaxSeatLines == 2

MaxBlockLines == 2

MaxSummaryLines == 2

CashHeader == "PokerStars Hand #1: Hold'em No Limit ($0.01/$0.02) - 2020/01/0112:00:00ET"

TourHeader ==
  "PokerStars Hand #7: Tournament #2, $5+$0.50 USD Hold'em No Limit - Level I (10/20) - 2020/01/0112:00:00ET"

\* the header of the scenario of the specification: its timestamp has blanks
SpacedHeader == "PokerStars Hand #1: Hold'em No Limit ($0.01/$0.02) - 2020/01/01 12:00:00 ET"

\* no hand identity
NoIdentHeader == "PokerStars Hand #: Hold'em No Limit ($0.01/$0.02) - 2020/01/0112:00:00ET"

BadHeaders == {SpacedHeader, NoIdentHeader}

TableLines ==
  {"Table 'T1' 6-max Seat #1 is the button",
   "Table 'T2' 2-max Seat #2 is the button",
   "Table T3 2-max"}

SeatLines ==
  {"Seat 1: A ($2.00 in chips)",
   "Seat 2: Hero ($1.50 in chips)",
   "Seat 7: B ($1 in chips)",
   "Seat 0: Z (300 in chips)"}

DealtLines == {"Dealt to A [Ah Kd]", "Dealt to Hero [Ks Kd]"}

\* the sequences of at most n elements of S
RECURSIVE SeqsUpTo(_, _)
SeqsUpTo(S, n) ==
  IF n = 0 THEN {<<>>}
  ELSE LET shorter == SeqsUpTo(S, n - 1)
       IN  shorter \cup {Append(q, x) : q \in {r \in shorter : Len(r) = n - 1}, x \in S}

\* the lines after the header line: table line, seat lines, perhaps a Dealt
\* to line
Body(t, seats, dealt) == <<t>> \o seats \o dealt

\* the head of the scenario of the specification
ScenarioBody == Body("Table 'T1' 6-max Seat #1 is the button", <<"Seat 1: A ($2.00 in chips)">>, <<>>)

\* a full table of two, Hero on the button
TwoSeats == <<"Seat 1: A ($2.00 in chips)", "Seat 2: Hero ($1.50 in chips)">>

NoSections == [x \in {} |-> <<>>]

PlayedSections ==
  [HOLE_CARDS |-> <<"*** HOLE CARDS ***", "A: raises $0.04 to $0.06", "Hero: calls $0.06">>,
   FLOP |-> <<"*** FLOP *** [4c Js 7c]", "P1: bets $0.10", "P2: folds">>,
   TURN |-> <<"*** TURN *** [4c Js 7c] [2d]", "B joins the table at seat #2", "A: bet $0.10">>,
   RIVER |-> <<"*** RIVER *** [4c Js 7c 2d] [Xx]", "A: checks">>,
   SHOW_DOWN |-> <<"*** SHOW DOWN ***">>,
   SUMMARY |-> <<"*** SUMMARY ***", "Total pot $0.40 | Rake $0.02", "Board [4c Js 7c 2d]",
                 "Seat 1: A showed [Ah Kd] and won", "Seat 1: A collected ($0.38)">>]

\* the streets played and no SUMMARY
UnfinishedSections == [k \in {"HOLE_CARDS", "FLOP"} |-> PlayedSections[k]]

MakeTranscript(header, body, whole, rest) ==
  [head |-> <<header>> \o body,
   sections |-> ("HEADER" :> (IF whole THEN <<header>> \o body ELSE body)) @@ rest]

\* every header over the scenario; every table line over every run of seat
\* lines; every Dealt to line over the sections played
Transcripts ==
  {MakeTranscript(h, ScenarioBody, whole, PlayedSections) :
     h \in {CashHeader, TourHeader} \cup BadHeaders, whole \in BOOLEAN}
  \cup {MakeTranscript(CashHeader, Body(t, seats, <<>>), FALSE, NoSections) :
          t \in TableLines, seats \in SeqsUpTo(SeatLines, MaxSeatLines)}
  \cup {MakeTranscript(CashHeader, Body(t, TwoSeats, dealt), whole, rest) :
          t \in {"Table 'T1' 6-max Seat #1 is the button",
                 "Table 'T2' 2-max Seat #2 is the button"},
          dealt \in {<<>>} \cup {<<d>> : d \in DealtLines}, whole \in BOOLEAN,
          rest \in {NoSections, UnfinishedSections, PlayedSections}}
  \cup {[head |-> <<CashHeader>>, sections |-> PlayedSections]}

(***************************************************************************)
(* The state: the hand object, the player objects, and where parse() is.   *)
(***************************************************************************)
VARIABLES hand, heap, pc, street

vars == <<hand, heap, pc, street>>

World == [hand |-> hand, heap |-> heap]

\* no street is being walked
NoStreet == [lines |-> <<>>, pos |-> 0, phase |-> "none", actions |-> <<>>,
             obj |-> [cards |-> <<>>, turn |-> None, river |-> None, pot |-> None,
                      actions |-> None]]

Init ==
  /\ hand \in {NewHand(t) : t \in Transcripts}
  /\ heap = <<>>
  /\ pc = "idle"
  /\ street = NoStreet

\* the step of parse() at position at: the method's effect, then the next
\* position, or "raised" when the method leaves parse() by an exception
Step(at, w, next) ==
  /\ pc = at
  /\ hand' = w.hand
  /\ heap' = w.heap
  /\ pc' = IF w.raised THEN "raised" ELSE next
  /\ UNCHANGED street

\* a caller calls parse_header()
CallParseHeader ==
  /\ pc = "idle"
  /\ LET w == ParseHeader(World)
     IN  /\ hand' = w.hand
         /\ heap' = w.heap
         /\ pc' = IF w.raised THEN "fatal" ELSE "idle"
  /\ UNCHANGED street

\* a caller calls parse(): if not self.header_parsed: self.parse_header()
CallParse ==
  /\ pc = "idle"
  /\ LET w == IF hand.header_parsed THEN Return(hand, heap) ELSE ParseHeader(World)
     IN  /\ hand' = w.hand
         /\ heap' = w.heap
         /\ pc' = IF w.raised THEN "fatal" ELSE "table"
  /\ UNCHANGED street

TableStep == Step("table", ParseTable(World), "players")

RosterStep == Step("players", ParsePlayers(World), "button")

ButtonStep == Step("button", ParseButton(World), "hero")

HeroStep == Step("hero", ParseHero(World), "preflop")

PreflopStep == Step("preflop", ParsePreflop(World), "flop")

FlopStep == Step("flop", ParseFlop(World), "turn")

TurnStep == Step("turn", ParseStreet(World, "TURN", "turn_actions"), "river")

RiverStep == Step("river", ParseStreet(World, "RIVER", "river_actions"), "showdown")

ShowdownStep == Step("showdown", ParseShowdown(World), "pot")

PotStep == Step("pot", ParsePot(World), "board")

BoardStep == Step("board", ParseBoard(World), "winners")

\* _parse_winners
WinnersStep ==
  /\ pc = "winners"
  /\ \E t \in TuplesOf(WinnerSet(hand)) : hand' = Set(hand, "winners", t)
  /\ pc' = "finalize"
  /\ UNCHANGED <<heap, street>>

FinalizeStep == Step("finalize", Finalize(World), "done")

Next ==
  \/ CallParseHeader
  \/ CallParse
  \/ TableStep
  \/ RosterStep
  \/ ButtonStep
  \/ HeroStep
  \/ PreflopStep
  \/ FlopStep
  \/ TurnStep
  \/ RiverStep
  \/ ShowdownStep
  \/ PotStep
  \/ BoardStep
  \/ WinnersStep
  \/ FinalizeStep

Spec == Init /\ [][Next]_vars

(***************************************************************************)
(* One street, walked line by line.  The hand is the one parse() has after *)
(* the Preflop step of a six-seat table with A in seat 1 and Hero in seat  *)
(* 2; its FLOP block is a board line and lines of the catalogue.  street   *)
(* is the _Street under construction: its lines, the index of the next     *)
(* line, the local list of actions and the attributes set so far.          *)
(***************************************************************************)
StreetCatalogue ==
  {"P1: bets $0.10",
   "P2: folds",
   "Hero: raises $0.10 to $0.15",
   "A: bet $0.10",
   "Uncalled bet ($0.40) returned to EsAyy",
   "Uncalled bet ($0.40) returned to Es Ayy",
   "B joins the table at seat #3",
   "C joins the table at seat #3",
   "B joins the table at seat #1",
   "EsAyy collected $0.37 from pot",
   "A said, \"nh\"",
   "A said, \"I collected\"",
   "Uncalled bet said, \"pay (5) to me\""}

FlopLine == "*** FLOP *** [4c Js 7c]"

\* the blocks: a board line and lines of the catalogue, and a board line with
\* a text that is no card
StreetBlocks ==
  {<<FlopLine>> \o b : b \in SeqsUpTo(StreetCatalogue, MaxBlockLines)}
  \cup {<<"*** FLOP *** [4c Js Xx]">>}

\* parse() up to the Preflop step on the transcript of that hand
SeatedWorld ==
  CHOOSE w \in
    {ParsePreflop(ParseHero(ParseButton(b))) : b \in
      {ParsePlayers(ParseTable(a)) : a \in
        {ParseHeader(
           [hand |-> NewHand(MakeTranscript(CashHeader,
                               Body("Table 'T1' 6-max Seat #1 is the button", TwoSeats,
                                    <<"Dealt to Hero [Ks Kd]">>),
                               FALSE, NoSections)),
            heap |-> <<>>])}}} : TRUE

\* the hand h read from a transcript that has the block under the key too:
\* no step before that section's own reads it
WithSection(h, key, block) ==
  [h EXCEPT !.sections = (key :> block) @@ @,
            !.raw = [@ EXCEPT !.sections = (key :> block) @@ @]]

StreetInit ==
  /\ \E block \in StreetBlocks :
       /\ hand = WithSection(SeatedWorld.hand, "FLOP", block)
       /\ street = [NoStreet EXCEPT !.lines = StripSplit(block), !.phase = "new"]
  /\ heap = SeatedWorld.heap
  /\ pc = "flop"

\* _parse_cards(lines[0]), c its outcome
CardsStep(c) ==
  street' = IF c.raised THEN [street EXCEPT !.phase = "raised"]
            ELSE [street EXCEPT !.phase = "walk", !.pos = 2, !.obj.cards = c.cards,
                                !.obj.turn = c.turn, !.obj.river = c.river]

StreetCards ==
  /\ pc = "flop"
  /\ street.phase = "new"
  /\ CardsStep(ParseCards(street.lines[1]))
  /\ UNCHANGED <<hand, heap, pc>>

\* the state after one turn of the loop of _parse_actions, st the walk after it
WalkTo(st) ==
  /\ hand' = Set(hand, "players", st.players)
  /\ heap' = st.heap
  /\ street' = [street EXCEPT !.pos = @ + 1, !.actions = st.actions, !.obj.pot = st.pot]

StreetNextLine ==
  /\ pc = "flop"
  /\ street.phase = "walk"
  /\ street.pos <= Len(street.lines)
  /\ WalkTo(StreetLine([actions |-> street.actions, pot |-> street.obj.pot,
                         players |-> hand.players, heap |-> heap],
                        street.lines[street.pos]))
  /\ UNCHANGED pc

\* the end of _parse_actions, and of _parse_flop: self.flop = the street
StreetDone ==
  /\ pc = "flop"
  /\ street.phase = "walk"
  /\ street.pos > Len(street.lines)
  /\ street' = [street EXCEPT !.phase = "done", !.obj.actions = FinalActions(street.actions)]
  /\ hand' = Set(hand, "flop", Some(street'.obj))
  /\ pc' = "turn"
  /\ UNCHANGED heap

\* the exception of _parse_cards, caught by _parse_flop: self.flop = None
StreetRaised ==
  /\ pc = "flop"
  /\ street.phase = "raised"
  /\ hand' = Set(hand, "flop", None)
  /\ pc' = "turn"
  /\ UNCHANGED <<heap, street>>

StreetNext ==
  \/ StreetCards
  \/ StreetNextLine
  \/ StreetDone
  \/ StreetRaised

StreetSpec == StreetInit /\ [][StreetNext]_vars

(***************************************************************************)
(* The SUMMARY steps.  parse() runs on the seated hand with a SUMMARY      *)
(* block of the marker line and lines of the catalogue.                    *)
(***************************************************************************)
SummaryCatalogue ==
  {"Total pot $0.40 | Rake $0.02",
   "Board [4c Js 7c 2d]",
   "Seat 1: A collected ($0.38)",
   "Seat 1: A showed [Ah Kd] and won",
   "Seat 2: Hero collected ($0.10)",
   "Seat 2: Hero showed [Ks Kd] and won",
   "Seat 3: C folded before Flop"}

\* the seated hand of the street walk, with that SUMMARY block, before parse()
SummaryInit ==
  /\ \E b \in SeqsUpTo(SummaryCatalogue, MaxSummaryLines) :
       hand = NewHand(MakeTranscript(CashHeader,
                                     Body("Table 'T1' 6-max Seat #1 is the button", TwoSeats,
                                          <<"Dealt to Hero [Ks Kd]">>),
                                     FALSE, "SUMMARY" :> (<<"*** SUMMARY ***">> \o b)))
  /\ heap = <<>>
  /\ pc = "idle"
  /\ street = NoStreet

SummarySpec == SummaryInit /\ [][Next]_vars

(***************************************************************************)
(* The properties.                                                         *)
(***************************************************************************)

\* C1: once the first line matched the header grammar, parse() runs every
\* step from Table to Finalize and never leaves by an exception: no state has
\* parse() left by a raise of a later step, and the hand ends parsed.
C1_NonHeaderFailuresAreLocal ==
  hand.header_parsed => /\ pc # "raised"
                        /\ (pc = "done" => hand.parsed)

\* the table line does not match: _parse_table has raised out of parse()
C1_TableRaised ==
  /\ pc = "raised"
  /\ hand.header_parsed
  /\ ~hand.parsed
  /\ SectionLines(hand.raw, "HEADER")[1] = "Table T3 2-max"
  /\ ~Has(hand, "table_name")

\* C2: for a transcript with no SUMMARY section parse() never leaves by an
\* exception, and when it has finished the total pot and the rake are 0.00,
\* the board is absent and the winners are empty.
C2_NoSummaryDefaults ==
  ("SUMMARY" \notin DOMAIN hand.raw.sections /\ hand.header_parsed) =>
    /\ pc # "raised"
    /\ (pc = "done" =>
          /\ DecEq(hand.total_pot, DecZero)
          /\ DecEq(Val(hand.rake), DecZero)
          /\ IsNone(hand.board)
          /\ hand.winners = <<>>)

\* a summary-less transcript parsed to the end, with the four defaults
C2_DefaultsReached ==
  /\ pc = "done"
  /\ "SUMMARY" \notin DOMAIN hand.raw.sections
  /\ DecEq(hand.total_pot, DecZero)
  /\ DecEq(Val(hand.rake), DecZero)
  /\ IsNone(hand.board)
  /\ hand.winners = <<>>

\* C3: a first line that does not match the header grammar (no hand
\* identity, or any other mismatch) makes parse_header() and parse() raise the
\* fatal error before any field is assigned: header_parsed and parsed stay
\* false, no field of the hand exists, and no step from Table on runs.
C3_HeaderFailureIsFatal ==
  hand.raw.head[1] \in BadHeaders =>
    /\ pc \in {"idle", "fatal"}
    /\ ~hand.header_parsed
    /\ ~hand.parsed
    /\ DOMAIN hand \subseteq {"raw", "header_parsed", "parsed", "_splitted", "sections"}

\* the header without a hand identity has raised the fatal error
C3_FatalReached ==
  /\ pc = "fatal"
  /\ hand.raw.head[1] = NoIdentHeader
  /\ ~hand.header_parsed
  /\ ~hand.parsed

\* C4: from the Roster step on the roster has exactly max-seats entries, the
\* number read from the table line, whatever the seat lines and the later
\* joins are.
C4_RosterLength ==
  Has(hand, "players") => Len(hand.players) = hand.max_players

\* the hand is parsed to the end, a seat line has seated A and a join has
\* seated B
C4_SeatedAndJoined ==
  /\ pc = "done"
  /\ hand.max_players = 6
  /\ Len(hand.players) = 6
  /\ heap[hand.players[1]].name = "A"
  /\ heap[hand.players[2]].name = "B"

\* C5: the generic player-action lines of a street give one action each, in
\* line order, with the kind of the verb and the first amount after it: the
\* block 'P1: bets $0.10', 'P2: folds' gives (P1, BET, 0.10), (P2, FOLD, None)
\* and 'Hero: raises $0.10 to $0.15' gives (Hero, RAISE, 0.10).
C5_VerbLinesGiveActions ==
  street.phase = "done" =>
    /\ (street.lines = <<FlopLine, "P1: bets $0.10", "P2: folds">> =>
          street.obj.actions =
            Some(<<PlayerAction("P1", "BET", Some([n |-> 10, d |-> 2])),
                   PlayerAction("P2", "FOLD", None)>>))
    /\ (street.lines = <<FlopLine, "Hero: raises $0.10 to $0.15">> =>
          street.obj.actions =
            Some(<<PlayerAction("Hero", "RAISE", Some([n |-> 10, d |-> 2]))>>))
    /\ (Range(Tail(street.lines)) \subseteq
          {"P1: bets $0.10", "P2: folds", "Hero: raises $0.10 to $0.15", "A: bet $0.10"} =>
          Len(street.actions) = Len(street.lines) - 1)

\* the block of the scenario is walked to its end and has given no action
C5_ScenarioGivesNoAction ==
  /\ street.phase = "done"
  /\ street.lines = <<FlopLine, "P1: bets $0.10", "P2: folds">>
  /\ IsNone(street.obj.actions)
  /\ hand.flop = Some(street.obj)

\* C6: when the table line matches the table grammar with button seat b,
\* 1 <= b <= max seats, the button is the roster entry at index b - 1 from
\* the Button step on.
C6_ButtonResolved ==
  pc \in {"hero", "preflop", "flop", "turn", "river", "showdown", "pot", "board",
          "winners", "finalize"} =>
    LET match == ReMatch(_table_re, SectionLines(hand.raw, "HEADER")[1])
    IN  (~IsNone(match) /\ ParseInt(Val(match).button) \in 1..hand.max_players) =>
          hand.button = Some(hand.players[ParseInt(Val(match).button)])

\* the scenario of the specification after the Button step: A is seated in
\* seat 1, seat 1 is the button, and the button is None
C6_ScenarioButtonNone ==
  /\ pc = "hero"
  /\ hand.raw.sections["HEADER"] = ScenarioBody
  /\ heap[hand.players[1]].name = "A"
  /\ IsNone(hand.button)

\* C7: a line 'Uncalled bet ($X) returned to N' adds exactly one action, the
\* RETURN of X to N, whatever the lines before it and after it are.
C7_UncalledReturn ==
  [][(/\ pc = "flop"
      /\ street.phase = "walk"
      /\ street.pos <= Len(street.lines)
      /\ StartsWith(street.lines[street.pos], "Uncalled bet ($"))
     => LET line == street.lines[street.pos]
            N == Partition(line, " returned to ")[3]
            X == Partition(Partition(line, "($")[3], ")")[1]
        IN  street'.actions = Append(street.actions, PlayerAction(N, "RETURN", DecimalOf(X)))
    ]_vars

\* the uncalled bet of Es Ayy is returned to Es
C7_NameCut ==
  /\ street.phase = "walk"
  /\ street.pos = 3
  /\ street.lines[2] = "Uncalled bet ($0.40) returned to Es Ayy"
  /\ street.actions = <<PlayerAction("Es", "RETURN", Some([n |-> 40, d |-> 2]))>>

\* C8: the winners hold every name that a 'Seat N: <name> collected (<amount>)'
\* line or a 'Seat N: <name> showed [...] and won' line of the SUMMARY gives,
\* and each of them once, however many lines name it.
C8_WinnersOnce ==
  pc \in {"finalize", "done"} =>
    LET lines == StripSplit(hand.raw.sections["SUMMARY"])
        collected == {i \in 1..Len(lines) : ~IsNone(ReMatch(_winner_re, Strip(lines[i])))}
        shown == {i \in 1..Len(lines) : ~IsNone(ReMatch(_showdown_re, Strip(lines[i])))}
        named == {Val(ReMatch(_winner_re, Strip(lines[i]))).name : i \in collected}
                 \cup {Val(ReMatch(_showdown_re, Strip(lines[i]))).name : i \in shown}
    IN  /\ Range(hand.winners) = named
        /\ Len(hand.winners) = Cardinality(named)

\* A is named by a collected line and by a showed line and is one winner
C8_BothShapesOnce ==
  /\ pc = "done"
  /\ hand.raw.sections["SUMMARY"] =
       <<"*** SUMMARY ***", "Seat 1: A collected ($0.38)", "Seat 1: A showed [Ah Kd] and won">>
  /\ hand.winners = <<"A">>

C10_HeroResolved ==
  pc \in {"preflop", "flop", "turn", "river", "showdown", "pot", "board", "winners",
          "finalize"} =>
    LET match == FirstHeroLine(SectionLines(hand.raw, "HEADER"), 1)
    IN  (~IsNone(match) /\ HeroIndex(heap, hand.players, Val(match).hero_name) # 0) =>
          /\ ~IsNone(hand.hero)
          /\ hand.hero = Some(hand.players[HeroIndex(heap, hand.players, Val(match).hero_name)])
          /\ heap[Val(hand.hero)].name = Val(match).hero_name
          /\ heap[Val(hand.hero)].combo = Some(Val(match).card1 \o Val(match).card2)
          /\ (~IsNone(hand.button) /\ heap[Val(hand.button)].seat = heap[Val(hand.hero)].seat
                => hand.button = hand.hero)

\* Hero is dealt Ks Kd and seated in seat 2: after the Hero step the roster
\* entry has the pair and the hand has no hero
C10_HeroNone ==
  /\ pc = "preflop"
  /\ heap[hand.players[2]].name = "Hero"
  /\ heap[hand.players[2]].combo = Some("KsKd")
  /\ IsNone(hand.hero)
  /\ IsNone(hand.button)

\* C11: a line that contains the chat marker ' said, "' adds no action to the
\* street's actions, whatever else it contains and wherever it stands in the
\* block.
C11_ChatGivesNoAction ==
  [][(/\ pc = "flop"
      /\ street.phase = "walk"
      /\ street.pos <= Len(street.lines)
      /\ Contains(street.lines[street.pos], " said, \""))
     => street'.actions = street.actions
    ]_vars

\* what the player named Uncalled bet said has become a RETURN of 5 to me,
\* and what A said before it has given nothing
C11_ChatReturned ==
  /\ street.phase = "done"
  /\ street.lines = <<FlopLine, "A said, \"nh\"", "Uncalled bet said, \"pay (5) to me\"">>
  /\ street.obj.actions = Some(<<PlayerAction("me", "RETURN", Some([n |-> 5, d |-> 0]))>>)

\* C12: no step of parse() after the Header step changes a field the Header
\* step assigned: the buy-in and the buy-in rake of a tournament hand, and
\* the absent buy-in rake of a cash hand, are in the finished record as the
\* header gave them.
C12_HeaderFieldsKept ==
  [][(pc \in {"table", "players", "button", "hero", "preflop", "flop", "turn", "river",
              "showdown", "pot", "board", "winners", "finalize"})
     => (\A x \in {"extra", "ident", "sb", "bb", "game_type", "tournament_ident",
                   "tournament_level", "buyin", "rake", "currency", "game", "limit", "date",
                   "header_parsed"} : hand'[x] = hand[x])
    ]_vars

\* the tournament hand of buy-in $5+$0.50 is finished: its buy-in is 5 and
\* its rake is the 0.02 of the pot line
C12_RakeReplaced ==
  /\ pc = "done"
  /\ hand.raw.head[1] = TourHeader
  /\ hand.game_type = "TOUR"
  /\ hand.buyin = Some([n |-> 5, d |-> 0])
  /\ hand.rake = Some([n |-> 2, d |-> 2])
  /\ hand.total_pot = [n |-> 40, d |-> 2]
====
